---- MODULE Spec2Model ----
(***************************************************************************)
(* Model of package errs (github.com/valensto/errs): slugs, the typed     *)
(* error Err with its construction and enrichment API, the extraction     *)
(* functions, HTTPStatus and ProblemJSON.                                  *)
(*                                                                         *)
(* Error values are records tagged by "kind" (the dynamic type held by a  *)
(* Go error interface).  A Params map is a reference in Go: Err.params is *)
(* an address into `heap` (0 is the nil map), so that two Err values      *)
(* copied from one another share one store, as they do in the program.    *)
(***************************************************************************)
EXTENDS Integers, Sequences, FiniteSets, TLC

VARIABLES
    err,    \* the error value the caller currently holds (NilErr when none)
    hist,   \* the Err values the caller held before each enrichment call
    heap,   \* the allocated Params maps, by address 1..Len(heap)
    out,    \* the result of the last extraction / transport call
    pc,     \* SpecRace: each goroutine's position
    loc     \* SpecRace: each goroutine's locals

vars == <<err, hist, heap, out, pc, loc>>

(***************************** bounds **************************************)
MaxWrap == 2      \* generic fmt.Errorf("...: %w", err) layers around err
MaxOps == 2       \* enrichment calls applied to one Err
MaxFields == 2    \* failing fields in one validator.ValidationErrors

(***************************** slugs ***************************************)
NilErr == [kind |-> "nil"]

Slug(type, id) == [kind |-> "slug", type |-> type, id |-> id]

SlugUnknown == Slug("Unknown", "unknown")
SlugNotFound == Slug("NotFound", "not-found")
SlugInvalid == Slug("Invalid", "request-invalid")
SlugUnauthorized == Slug("Unauthorized", "unauthorized")
SlugForbidden == Slug("Forbidden", "forbidden")
SlugDuplicate == Slug("Duplicate", "already-exists")
SlugNotImplemented == Slug("NotImplemented", "not-implemented")
SlugInternal == Slug("Internal", "internal-error")

BuiltinSlugs ==
    { SlugUnknown, SlugNotFound, SlugInvalid, SlugUnauthorized, SlugForbidden,
      SlugDuplicate, SlugNotImplemented, SlugInternal }

\* Slugs an application declares with the package's types (README, "Good
\* practices"), and one of a type of its own that implements Slug.
SlugPhoneInvalid == Slug("BadRequest", "phone_invalid")
SlugUserMissing == Slug("NotFound", "user_missing")
SlugTeapot == Slug("Teapot", "teapot")

CustomSlugs == { SlugPhoneInvalid, SlugUserMissing, SlugTeapot }

Slugs == BuiltinSlugs \cup CustomSlugs

(***************************** error values ********************************)
\* errors.New(msg): an opaque error of a dependency.
Plain(msg) == [kind |-> "plain", msg |-> msg]

\* fmt.Errorf(prefix + ": %w", inner): one generic wrapping layer.
Wrap(prefix, inner) == [kind |-> "wrap", msg |-> prefix, cause |-> inner]

\* fmt.Errorf("%w: %w", a, b): Unwrap() []error lists the non-nil operands.
Join(a, b) == [kind |-> "join", a |-> a, b |-> b]

Err(slug, error, details, params) ==
    [kind |-> "Err", slug |-> slug, error |-> error, details |-> details,
     params |-> params]

\* The nil Params map.
NilParams == 0

EmptyMap == [k \in {} |-> ""]

Deref(h, p) == IF p = NilParams THEN EmptyMap ELSE h[p]

(***************************** rendering ***********************************)
\* Calling Error() on a nil error interface is a nil dereference.
PANIC == "panic: runtime error: invalid memory address or nil pointer dereference"

RECURSIVE JoinStrings(_, _)
JoinStrings(parts, sep) ==
    IF Len(parts) = 0 THEN ""
    ELSE IF Len(parts) = 1 THEN parts[1]
    ELSE parts[1] \o sep \o JoinStrings(Tail(parts), sep)

RECURSIVE Error(_)
\* What fmt prints for a %w operand: a nil operand is a bad verb, and a
\* panic of the operand's Error method is caught and printed.
FmtW(e) ==
    IF e.kind = "nil" THEN "%!w(<nil>)"
    ELSE IF Error(e) = PANIC THEN "%!w(PANIC=Error method: runtime error: invalid memory address or nil pointer dereference)"
    ELSE Error(e)

\* Err.Error that appends the separator and the details unconditionally.
ErrErrorAlwaysDetails(e) ==
    IF e.error.kind = "nil" THEN PANIC
    ELSE Error(e.error) \o ": " \o e.details

ErrError(e) ==
    IF e.error.kind = "nil" THEN PANIC
    ELSE IF e.details = "" THEN Error(e.error)
    ELSE Error(e.error) \o ": " \o e.details

Error(e) ==
    CASE e.kind = "nil" -> PANIC
      [] e.kind = "plain" -> e.msg
      [] e.kind = "slug" -> e.id
      [] e.kind = "wrap" -> e.msg \o ": " \o FmtW(e.cause)
      [] e.kind = "join" -> FmtW(e.a) \o ": " \o FmtW(e.b)
      [] e.kind = "Err" -> ErrError(e)
      [] e.kind = "ValidationErrors" ->
            JoinStrings([i \in 1..Len(e.fields) |-> e.fields[i].msg], "\n")
      [] e.kind = "InvalidValidationError" -> "validator: (nil)"

(***************************** errors.As ***********************************)
NotFoundAs == [ok |-> FALSE, val |-> NilErr]

\* reflect.TypeOf(err).AssignableTo(targetType): every error is assignable to
\* a target of the interface type error; a concrete target wants that type.
AssignableTo(e, target) == target = "error" \/ e.kind = target

\* errors.As that looks at err itself and never unwraps.
AsTopOnly(e, target) ==
    IF e.kind # "nil" /\ AssignableTo(e, target)
    THEN [ok |-> TRUE, val |-> e] ELSE NotFoundAs

RECURSIVE As(_, _)
As(e, target) ==
    IF e.kind = "nil" THEN NotFoundAs
    ELSE IF AssignableTo(e, target) THEN [ok |-> TRUE, val |-> e]
    ELSE IF e.kind = "wrap" THEN As(e.cause, target)
    ELSE IF e.kind = "join" THEN
        LET l == As(e.a, target) IN IF l.ok THEN l ELSE As(e.b, target)
    ELSE NotFoundAs

(***************************** construction ********************************)
New(slug, details) == Err(slug, slug, JoinStrings(details, ": "), NilParams)

\* getErr that wraps under SlugUnknown whatever it is given.
getErrAlwaysUnknown(e) == Err(SlugUnknown, e, "", NilParams)

getErr(e) ==
    LET a == As(e, "Err") IN
    IF ~a.ok THEN Err(SlugUnknown, e, "", NilParams) ELSE a.val

NewFromError(e) == getErr(e)

\* strings.ToLower on the field names the model draws.
ToLower(s) ==
    CASE s = "Name" -> "name"
      [] s = "name" -> "name"
      [] s = "Email" -> "email"
      [] OTHER -> s

\* Params.Add that makes a fresh map on every call.
AddFreshMap(h, p, key, value) ==
    [heap |-> Append(h, [k \in {key} |-> value]), params |-> Len(h) + 1]

\* Params.Add through the pointer p (an address into h, 0 for the nil map):
\* the map is made when nil, then the pair is stored.
Add(h, p, key, value) ==
    LET q == IF p = NilParams THEN Len(h) + 1 ELSE p
        h1 == IF p = NilParams THEN Append(h, EmptyMap) ELSE h
        m == h1[q]
    IN [heap |-> [h1 EXCEPT ![q] =
                    [k \in DOMAIN m \cup {key} |-> IF k = key THEN value ELSE m[k]]],
        params |-> q]

RECURSIVE AddFields(_, _, _, _)
AddFields(h, p, fields, translator) ==
    IF Len(fields) = 0 THEN [heap |-> h, params |-> p]
    ELSE LET fe == fields[1]
             msg == IF translator # "nil" THEN fe.tr ELSE fe.msg
             r == Add(h, p, ToLower(fe.field), msg)
         IN AddFields(r.heap, r.params, Tail(fields), translator)

NewFromValidator(h, e, translator) ==
    IF As(e, "InvalidValidationError").ok
    THEN [heap |-> h, e |-> Err(SlugInvalid, e, "", NilParams)]
    ELSE LET r == AddFields(h, NilParams, e.fields, translator)
         IN [heap |-> r.heap, e |-> Err(SlugInvalid, e, "", r.params)]

(***************************** enrichment **********************************)
WithError(e, x) == [e EXCEPT !.error = Join(e.error, x)]

WithDetails(e, details) == [e EXCEPT !.details = e.details \o ": " \o details]

\* for k, v := range params { e.params[k] = v }
Merge(m, params) ==
    [k \in DOMAIN m \cup DOMAIN params |->
        IF k \in DOMAIN params THEN params[k] ELSE m[k]]

WithParams(h, e, params) ==
    LET q == IF e.params = NilParams THEN Len(h) + 1 ELSE e.params
        h1 == IF e.params = NilParams THEN Append(h, EmptyMap) ELSE h
    IN [heap |-> [h1 EXCEPT ![q] = Merge(h1[q], params)],
        e |-> [e EXCEPT !.params = q]]

(***************************** extraction **********************************)
SlugFromErr(e) ==
    LET a == As(e, "Err") IN IF a.ok THEN a.val.slug ELSE SlugUnknown

DetailFromErr(e) ==
    LET a == As(e, "Err") IN IF a.ok THEN a.val.details ELSE "unknown error"

ParamsFromErr(e) ==
    LET a == As(e, "Err") IN IF a.ok THEN a.val.params ELSE NilParams

(***************************** transport mapping ***************************)
StatusNotFound == 404
StatusBadRequest == 400
StatusUnauthorized == 401
StatusForbidden == 403
StatusConflict == 409
StatusNotImplemented == 501
StatusInternalServerError == 500

\* The map literal of HTTPStatus, in source order.  Each key is an error
\* interface holding a typed nil pointer; `target` is the type of the
\* variable the range loop hands to errors.As, which is the map's key type
\* error whatever pointer the key holds.
errorMap ==
    << [key |-> "NotFound", target |-> "error", status |-> StatusNotFound],
       [key |-> "BadRequest", target |-> "error", status |-> StatusBadRequest],
       [key |-> "Unauthorized", target |-> "error", status |-> StatusUnauthorized],
       [key |-> "Forbidden", target |-> "error", status |-> StatusForbidden],
       [key |-> "Duplicate", target |-> "error", status |-> StatusConflict],
       [key |-> "NotImplemented", target |-> "error", status |-> StatusNotImplemented] >>

\* The orders in which range may visit the map: Go leaves the order
\* unspecified; the runtime starts at a random entry and goes round.
Orders ==
    { [i \in 1..Len(errorMap) |-> ((i + r - 1) % Len(errorMap)) + 1] :
        r \in 0..(Len(errorMap) - 1) }

RECURSIVE RangeErrorMap(_, _, _)
\* The range loop from position i of the visiting order: the status of the
\* first entry errors.As accepts, or 500 when the loop runs out.
RangeErrorMap(slug, ord, i) ==
    IF i > Len(ord) THEN StatusInternalServerError
    ELSE IF As(slug, errorMap[ord[i]].target).ok THEN errorMap[ord[i]].status
    ELSE RangeErrorMap(slug, ord, i + 1)

HTTPStatus(e, ord) == RangeErrorMap(getErr(e).slug, ord, 1)

BlankType == "about:blank"

\* ProblemJSON without the test `detail != ""`.
ProblemJSONAlwaysDetail(h, e, instance, pbType, ord) ==
    LET params == ParamsFromErr(e)
        errMap == [type |-> IF Len(pbType) > 0 THEN pbType[1] ELSE BlankType,
                   title |-> SlugFromErr(e), status |-> HTTPStatus(e, ord),
                   instance |-> instance, detail |-> DetailFromErr(e)]
    IN IF Cardinality(DOMAIN Deref(h, params)) > 0
       THEN ("params" :> Deref(h, params)) @@ errMap
       ELSE errMap

ProblemJSON(h, e, instance, pbType, ord) ==
    LET code == HTTPStatus(e, ord)
        slug == SlugFromErr(e)
        detail == DetailFromErr(e)
        params == ParamsFromErr(e)
        t == IF Len(pbType) > 0 THEN pbType[1] ELSE BlankType
        errMap == [type |-> t, title |-> slug, status |-> code,
                   instance |-> instance]
        withDetail == IF detail # "" THEN ("detail" :> detail) @@ errMap
                      ELSE errMap
    IN IF Cardinality(DOMAIN Deref(h, params)) > 0
       THEN ("params" :> Deref(h, params)) @@ withDetail
       ELSE withDetail

(***************************** inputs **************************************)
PartsInputs == { <<>>, <<"a">>, <<"a", "b">> }

BoundaryParts == { <<>>, <<"user 42">> }

NewSlugInputs == { SlugNotFound, SlugPhoneInvalid }

CauseInputs == { Plain("boom"), New(SlugDuplicate, <<>>) }

DetailInputs == { "more" }

ParamInputs ==
    { EmptyMap, [k \in {"x"} |-> "1"],
      [k \in {"x", "y"} |-> IF k = "x" THEN "2" ELSE "3"] }

InstanceInputs == { "/users/42", "" }

PbTypeInputs == { <<>>, <<"https://example.com/probs/out-of-credit">> }

\* validator.FieldError values: Field(), Error() and Translate(translator).
FieldErrors ==
    { [field |-> "Name", msg |-> "Name failed on the 'required' tag",
       tr |-> "Name is a required field"],
      [field |-> "name", msg |-> "name failed on the 'min' tag",
       tr |-> "name must be at least 3 characters"],
      [field |-> "Email", msg |-> "Email failed on the 'email' tag",
       tr |-> "Email must be a valid email address"] }

ValidationErrors(fields) == [kind |-> "ValidationErrors", fields |-> fields]

InvalidValidationError == [kind |-> "InvalidValidationError"]

ValidatorInputs ==
    { InvalidValidationError } \cup
    UNION { { ValidationErrors(f) : f \in [1..n -> FieldErrors] } : n \in 1..MaxFields }

TranslatorInputs == { "nil", "en" }

RECURSIVE WrapDepth(_)
WrapDepth(e) == IF e.kind = "wrap" THEN 1 + WrapDepth(e.cause) ELSE 0

\* What a call left behind: its name, the error it was given (or held), its
\* other inputs and its result, each a record naming what it holds.
None == [none |-> TRUE]

Result(op, arg, in, val) == [op |-> op, arg |-> arg, in |-> in, val |-> val]

(***************************** actions *************************************)
Init ==
    /\ err = NilErr
    /\ hist = <<>>
    /\ heap = <<>>
    /\ out = Result("init", NilErr, None, None)
    /\ pc = <<>>
    /\ loc = <<>>

\* A dependency returns an opaque error.
DependencyFails ==
    /\ err = NilErr
    /\ err' = Plain("boom")
    /\ out' = Result("errors.New", NilErr, None, None)
    /\ UNCHANGED <<hist, heap, pc, loc>>

CallNew ==
    /\ err = NilErr
    /\ \E slug \in NewSlugInputs, details \in PartsInputs :
        /\ err' = New(slug, details)
        /\ out' = Result("New", NilErr, [slug |-> slug, parts |-> details], None)
    /\ UNCHANGED <<hist, heap, pc, loc>>

CallNewFromError ==
    /\ err' = NewFromError(err)
    /\ out' = Result("NewFromError", err, None, None)
    /\ UNCHANGED <<hist, heap, pc, loc>>

CallNewFromValidator ==
    /\ err = NilErr
    /\ \E verr \in ValidatorInputs, translator \in TranslatorInputs :
        LET r == NewFromValidator(heap, verr, translator) IN
        /\ err' = r.e
        /\ heap' = r.heap
        /\ out' = Result("NewFromValidator", verr, [translator |-> translator], None)
    /\ UNCHANGED <<hist, pc, loc>>

\* The caller adds context: fmt.Errorf("ctx: %w", err).
WrapErr ==
    /\ err # NilErr
    /\ WrapDepth(err) < MaxWrap
    /\ err' = Wrap("ctx", err)
    /\ out' = Result("fmt.Errorf", err, None, None)
    /\ UNCHANGED <<hist, heap, pc, loc>>

CallWithError ==
    /\ err.kind = "Err"
    /\ Len(hist) < MaxOps
    /\ \E x \in CauseInputs :
        /\ err' = WithError(err, x)
        /\ out' = Result("WithError", err, [cause |-> x], None)
    /\ hist' = Append(hist, err)
    /\ UNCHANGED <<heap, pc, loc>>

CallWithDetails ==
    /\ err.kind = "Err"
    /\ Len(hist) < MaxOps
    /\ \E d \in DetailInputs :
        /\ err' = WithDetails(err, d)
        /\ out' = Result("WithDetails", err, [details |-> d], None)
    /\ hist' = Append(hist, err)
    /\ UNCHANGED <<heap, pc, loc>>

CallWithParams ==
    /\ err.kind = "Err"
    /\ Len(hist) < MaxOps
    /\ \E m \in ParamInputs :
        LET r == WithParams(heap, err, m) IN
        /\ err' = r.e
        /\ heap' = r.heap
        /\ out' = Result("WithParams", err, [params |-> m], None)
    /\ hist' = Append(hist, err)
    /\ UNCHANGED <<pc, loc>>

CallError ==
    /\ err # NilErr
    /\ out' = Result("Error", err, None, [message |-> Error(err)])
    /\ UNCHANGED <<err, hist, heap, pc, loc>>

CallSlugFromErr ==
    /\ out' = Result("SlugFromErr", err, None, [slug |-> SlugFromErr(err)])
    /\ UNCHANGED <<err, hist, heap, pc, loc>>

CallDetailFromErr ==
    /\ out' = Result("DetailFromErr", err, None, [detail |-> DetailFromErr(err)])
    /\ UNCHANGED <<err, hist, heap, pc, loc>>

CallParamsFromErr ==
    /\ out' = Result("ParamsFromErr", err, None, [params |-> ParamsFromErr(err)])
    /\ UNCHANGED <<err, hist, heap, pc, loc>>

CallHTTPStatus ==
    /\ \E ord \in Orders :
        out' = Result("HTTPStatus", err, [ord |-> ord], [status |-> HTTPStatus(err, ord)])
    /\ UNCHANGED <<err, hist, heap, pc, loc>>

CallProblemJSON ==
    /\ \E ord \in Orders, instance \in InstanceInputs, pbType \in PbTypeInputs :
        out' = Result("ProblemJSON", err,
                      [instance |-> instance, pbType |-> pbType, ord |-> ord],
                      [problem |-> ProblemJSON(heap, err, instance, pbType, ord)])
    /\ UNCHANGED <<err, hist, heap, pc, loc>>

Next ==
    \/ DependencyFails
    \/ CallNew
    \/ CallNewFromError
    \/ CallNewFromValidator
    \/ WrapErr
    \/ CallWithError
    \/ CallWithDetails
    \/ CallWithParams
    \/ CallError
    \/ CallSlugFromErr
    \/ CallDetailFromErr
    \/ CallParamsFromErr

\* Construction, enrichment, wrapping and extraction.
Spec == Init /\ [][Next]_vars

(***************************** transport boundary **************************)
\* The errors that reach the transport boundary: no error, an opaque error,
\* and a typed error of each slug, bare or carrying details and parameters.
BoundaryInputs ==
    { [e |-> NilErr, heap |-> <<>>], [e |-> Plain("boom"), heap |-> <<>>] }
    \cup { [e |-> New(slug, details), heap |-> <<>>] :
             slug \in Slugs, details \in BoundaryParts }
    \cup { WithParams(<<>>, New(slug, details), m) :
             slug \in Slugs, details \in BoundaryParts, m \in ParamInputs }

InitHTTP ==
    /\ \E i \in BoundaryInputs :
        /\ err = i.e
        /\ heap = i.heap
    /\ hist = <<>>
    /\ out = Result("init", NilErr, None, None)
    /\ pc = <<>>
    /\ loc = <<>>

NextHTTP ==
    \/ WrapErr
    \/ CallSlugFromErr
    \/ CallDetailFromErr
    \/ CallParamsFromErr
    \/ CallHTTPStatus
    \/ CallProblemJSON

\* An error arrives at the transport boundary, possibly through generic
\* wrapping layers, and is turned into a status and a problem payload.
SpecHTTP == InitHTTP /\ [][NextHTTP]_vars

(***************************** concurrent propagation **********************)
\* One Err value is handed to two goroutines.  Each receives its own copy of
\* the struct (value semantics); the copies hold the same params reference.
\* Nothing orders the goroutines after the hand-over.
Goroutines == {"g1", "g2"}

Tasks == {"WithParams", "ParamsFromErr", "ProblemJSON"}

SharedInputs ==
    { [e |-> New(SlugInvalid, <<>>), heap |-> <<>>],
      WithParams(<<>>, New(SlugInvalid, <<>>), [k \in {"x"} |-> "1"]) }

\* The map goroutine g merges in when its task is WithParams.
OwnParams(g) == { [k \in {g} |-> "set by " \o g], [k \in {"x", g} |-> g] }

Crashed == \E g \in Goroutines : pc[g] = "fatal"

\* Another goroutine is inside a map assignment on store s (the runtime's
\* hashWriting flag of the map is set).
Writing(g, s) ==
    \E o \in Goroutines \ {g} : pc[o] = "assign" /\ loc[o].e.params = s

InitRace ==
    /\ \E i \in SharedInputs :
        /\ err = i.e
        /\ heap = i.heap
    /\ hist = <<>>
    /\ out = Result("init", NilErr, None, None)
    /\ pc = [g \in Goroutines |-> "start"]
    /\ \E task \in [Goroutines -> Tasks] :
       \E arg \in [Goroutines -> UNION { OwnParams(g) : g \in Goroutines }] :
        /\ \A g \in Goroutines : arg[g] \in OwnParams(g)
        /\ loc = [g \in Goroutines |->
                    [task |-> task[g], e |-> err,
                     arg |-> IF task[g] = "WithParams" THEN arg[g] ELSE EmptyMap,
                     todo |-> IF task[g] = "WithParams" THEN DOMAIN arg[g] ELSE {},
                     key |-> "", ref |-> NilParams, seen |-> EmptyMap,
                     wrote |-> {}, read |-> {}]]

\* WithParams, first statement: if e.params == nil { e.params = make(Params) }.
\* e is the goroutine's own copy; a map made here is private to it.
WithParamsMake(g) ==
    /\ ~Crashed
    /\ pc[g] = "start"
    /\ loc[g].task = "WithParams"
    /\ IF loc[g].e.params = NilParams
       THEN /\ heap' = Append(heap, EmptyMap)
            /\ loc' = [loc EXCEPT ![g].e.params = Len(heap) + 1]
       ELSE UNCHANGED <<heap, loc>>
    /\ pc' = [pc EXCEPT ![g] = "range"]
    /\ UNCHANGED <<err, hist, out>>

\* The range loop takes the next pair and enters the map assignment.  When
\* another goroutine is inside an assignment to the same map, the runtime
\* either sees its flag and throws "concurrent map writes", or misses it.
WithParamsRange(g) ==
    /\ ~Crashed
    /\ pc[g] = "range"
    /\ IF loc[g].todo = {}
       THEN /\ pc' = [pc EXCEPT ![g] = "done"]
            /\ UNCHANGED loc
       ELSE \E k \in loc[g].todo :
            /\ loc' = [loc EXCEPT ![g].key = k]
            /\ \/ pc' = [pc EXCEPT ![g] = "assign"]
               \/ /\ Writing(g, loc[g].e.params)
                  /\ pc' = [pc EXCEPT ![g] = "fatal"]
    /\ UNCHANGED <<err, hist, heap, out>>

\* e.params[k] = v
WithParamsAssign(g) ==
    /\ ~Crashed
    /\ pc[g] = "assign"
    /\ LET s == loc[g].e.params
           k == loc[g].key
       IN /\ heap' = [heap EXCEPT ![s] =
                        Merge(@, [x \in {k} |-> loc[g].arg[k]])]
          /\ loc' = [loc EXCEPT ![g].todo = @ \ {k},
                                ![g].wrote = @ \cup {s}]
    /\ pc' = [pc EXCEPT ![g] = "range"]
    /\ UNCHANGED <<err, hist, out>>

\* ParamsFromErr(err) hands out the map itself, not a copy.
ParamsFromErrCall(g) ==
    /\ ~Crashed
    /\ pc[g] = "start"
    /\ loc[g].task \in {"ParamsFromErr", "ProblemJSON"}
    /\ loc' = [loc EXCEPT ![g].ref = ParamsFromErr(loc[g].e)]
    /\ pc' = [pc EXCEPT ![g] = "read"]
    /\ UNCHANGED <<err, hist, heap, out>>

\* The caller of ParamsFromErr ranges over the map it was given; ProblemJSON
\* takes its len.  A range that starts while another goroutine is inside an
\* assignment may throw "concurrent map iteration and map write"; len checks
\* nothing.
ReadParams(g) ==
    /\ ~Crashed
    /\ pc[g] = "read"
    /\ \/ /\ pc' = [pc EXCEPT ![g] = "done"]
          /\ loc' = [loc EXCEPT
                        ![g].seen = Deref(heap, loc[g].ref),
                        ![g].read = IF loc[g].ref = NilParams THEN @
                                    ELSE @ \cup {loc[g].ref}]
       \/ /\ loc[g].task = "ParamsFromErr"
          /\ loc[g].ref # NilParams
          /\ Writing(g, loc[g].ref)
          /\ pc' = [pc EXCEPT ![g] = "fatal"]
          /\ UNCHANGED loc
    /\ UNCHANGED <<err, hist, heap, out>>

NextRace ==
    \E g \in Goroutines :
        \/ WithParamsMake(g)
        \/ WithParamsRange(g)
        \/ WithParamsAssign(g)
        \/ ParamsFromErrCall(g)
        \/ ReadParams(g)

SpecRace == InitRace /\ [][NextRace]_vars

(***************************** claim helpers *******************************)
\* e with its generic wrapping layers removed.
RECURSIVE Peel(_)
Peel(e) == IF e.kind = "wrap" THEN Peel(e.cause) ELSE e

\* The reference table of the tests and of the documentation, by slug type.
CategoryStatus(type) ==
    CASE type = "NotFound" -> 404
      [] type \in {"BadRequest", "Invalid"} -> 400
      [] type = "Unauthorized" -> 401
      [] type = "Forbidden" -> 403
      [] type = "Duplicate" -> 409
      [] type = "NotImplemented" -> 501
      [] OTHER -> 500

(***************************** C1 ******************************************)
\* C1: HTTPStatus agrees with the reference table of TestHTTPStatus:
\* HTTPStatus(nil) = 200, and for each built-in slug c, HTTPStatus(New(c))
\* is 404, 400, 401, 403, 409, 501, 500 (internal) or 500 (unknown).
C1_ReferenceTable ==
    out.op = "HTTPStatus" =>
        /\ out.arg = NilErr => out.val.status = 200
        /\ \A c \in BuiltinSlugs :
            out.arg = New(c, <<>>) =>
                out.val.status =
                          CASE c = SlugNotFound -> 404
                            [] c = SlugInvalid -> 400
                            [] c = SlugUnauthorized -> 401
                            [] c = SlugForbidden -> 403
                            [] c = SlugDuplicate -> 409
                            [] c = SlugNotImplemented -> 501
                            [] c = SlugInternal -> 500
                            [] c = SlugUnknown -> 500

(***************************** C2 ******************************************)
\* C2: HTTPStatus maps by category membership: for a slug of any identifier
\* declared with one of the category types, HTTPStatus(New(slug)) is that
\* category's status, and a slug of no category gives 500.
C2_CategoryMembership ==
    \A slug \in Slugs :
        (out.op = "HTTPStatus" /\ out.arg = New(slug, <<>>)) =>
            out.val.status = CategoryStatus(slug.type)

(***************************** C4 ******************************************)
\* C4: for an error with no typed error in its chain (nil included), each
\* extraction function returns its fallback: SlugFromErr the Unknown slug,
\* DetailFromErr "unknown error", ParamsFromErr the nil map, and HTTPStatus
\* 500 when the error is not nil.
C4_GracefulDegradation ==
    Peel(out.arg).kind \in {"nil", "plain"} =>
        /\ out.op = "SlugFromErr" => out.val.slug = SlugUnknown
        /\ out.op = "DetailFromErr" => out.val.detail = "unknown error"
        /\ out.op = "ParamsFromErr" => out.val.params = NilParams
        /\ (out.op = "HTTPStatus" /\ out.arg # NilErr) => out.val.status = 500

(***************************** C6 ******************************************)
ProblemKeys(e, h) ==
    {"type", "title", "status", "instance"}
    \cup (IF DetailFromErr(e) # "" THEN {"detail"} ELSE {})
    \cup (IF Deref(h, ParamsFromErr(e)) # EmptyMap THEN {"params"} ELSE {})

ProblemShape ==
    LET p == out.val.problem IN
    /\ DOMAIN p = ProblemKeys(out.arg, heap)
    /\ p.type = (IF out.in.pbType = <<>> THEN "about:blank" ELSE out.in.pbType[1])
    /\ p.title = SlugFromErr(out.arg)
    /\ p.status = HTTPStatus(out.arg, out.in.ord)
    /\ p.instance = out.in.instance
    /\ "detail" \in DOMAIN p => p.detail = DetailFromErr(out.arg)
    /\ "params" \in DOMAIN p => p.params = Deref(heap, ParamsFromErr(out.arg))

\* Key k of problem map p holds a null or empty value.
IsEmptyValue(p, k) ==
    CASE k \in {"type", "instance", "detail"} -> p[k] = ""
      [] k = "title" -> p[k] = NilErr \/ p[k].id = ""
      [] k = "params" -> DOMAIN p[k] = {}
      [] OTHER -> FALSE

\* C6 as stated: the map of ProblemJSON has exactly the keys type, title,
\* status, instance, plus detail iff the detail text is not empty, plus
\* params iff a parameter was set; no key is present with a null or empty
\* value; type defaults to "about:blank", title is the slug, status is the
\* status HTTPStatus gave.
C6_Original ==
    out.op = "ProblemJSON" =>
        /\ ProblemShape
        /\ \A k \in DOMAIN out.val.problem : ~IsEmptyValue(out.val.problem, k)

\* C6 amended: as above, but only the conditional keys detail and params
\* are never present with an empty value; type, title and instance are
\* always present and carry whatever the caller supplied, empty or not.
C6_ProblemShape ==
    out.op = "ProblemJSON" =>
        /\ ProblemShape
        /\ \A k \in DOMAIN out.val.problem \cap {"detail", "params"} :
            ~IsEmptyValue(out.val.problem, k)

C6_Witness ==
    /\ out.op = "ProblemJSON"
    /\ Peel(out.arg).kind = "Err"
    /\ DOMAIN out.val.problem = {"type", "title", "status", "instance", "params"}
    /\ out.in.instance = ""

(***************************** C3 ******************************************)
\* C3: for a typed error e under N >= 0 generic wrapping layers,
\* SlugFromErr returns e's slug, DetailFromErr e's details and
\* ParamsFromErr e's parameters.
C3_ChainWalk ==
    Peel(out.arg).kind = "Err" =>
        /\ out.op = "SlugFromErr" => out.val.slug = Peel(out.arg).slug
        /\ out.op = "DetailFromErr" => out.val.detail = Peel(out.arg).details
        /\ out.op = "ParamsFromErr" => out.val.params = Peel(out.arg).params

C3_Witness ==
    /\ out.op = "ParamsFromErr"
    /\ WrapDepth(out.arg) = 2
    /\ Peel(out.arg).kind = "Err"
    /\ Peel(out.arg).details # ""
    /\ out.val.params # NilParams

(***************************** C5 ******************************************)
\* C5: for a non-nil err, NewFromError(NewFromError(err)) has the slug,
\* details, parameters and rendered message of NewFromError(err); when err
\* is or wraps a typed error the result is that typed error; otherwise the
\* result has SlugUnknown, empty details and err's message.
C5_Normalization ==
    (out.op = "NewFromError" /\ out.arg # NilErr) =>
        /\ LET again == NewFromError(err) IN
            /\ again.slug = err.slug
            /\ again.details = err.details
            /\ again.params = err.params
            /\ Error(again) = Error(err)
        /\ Peel(out.arg).kind = "Err" => err = Peel(out.arg)
        /\ Peel(out.arg).kind # "Err" =>
            /\ err.slug = SlugUnknown
            /\ err.details = ""
            /\ err.params = NilParams
            /\ Error(err) = Error(out.arg)

C5_Witness ==
    /\ out.op = "NewFromError"
    /\ WrapDepth(out.arg) >= 1
    /\ Peel(out.arg).kind = "Err"
    /\ Peel(out.arg).slug = SlugNotFound
    /\ err = Peel(out.arg)

(***************************** C7 ******************************************)
\* What can be observed through the Err value e.
View(e, h) ==
    [slug |-> e.slug, error |-> e.error, details |-> e.details,
     params |-> Deref(h, e.params)]

\* C7: no call changes the slug, cause, details or parameters observable
\* through the receiver of an enrichment call, nor through any earlier
\* value of the sequence.
C7_ReceiverUnchanged ==
    [][ /\ err.kind = "Err" => View(err, heap') = View(err, heap)
        /\ \A i \in 1..Len(hist) : View(hist[i], heap') = View(hist[i], heap)
      ]_vars

(***************************** C9 ******************************************)
FieldMessage(fe, translator) == IF translator = "nil" THEN fe.msg ELSE fe.tr

\* C9 as stated: N failing fields give SlugInvalid and exactly N parameter
\* entries, one per failing field, keyed by the lower-cased field name and
\* valued with that field's message; a structural error gives SlugInvalid
\* and no parameters.
C9_Original ==
    out.op = "NewFromValidator" =>
        LET p == Deref(heap, err.params) IN
        /\ err.slug = SlugInvalid
        /\ out.arg.kind = "InvalidValidationError" => err.params = NilParams
        /\ out.arg.kind = "ValidationErrors" =>
            /\ Cardinality(DOMAIN p) = Len(out.arg.fields)
            /\ \A i \in 1..Len(out.arg.fields) :
                /\ ToLower(out.arg.fields[i].field) \in DOMAIN p
                /\ p[ToLower(out.arg.fields[i].field)] =
                        FieldMessage(out.arg.fields[i], out.in.translator)

\* C9 amended: the parameters hold one entry per distinct lower-cased field
\* name, valued with the message of the last failing field of that name;
\* they are exactly N entries, each field's own message, when the N
\* lower-cased names differ.
C9_ValidatorParams ==
    out.op = "NewFromValidator" =>
        LET p == Deref(heap, err.params)
            f == out.arg.fields
            last(k) == CHOOSE i \in 1..Len(f) :
                          /\ ToLower(f[i].field) = k
                          /\ \A j \in (i + 1)..Len(f) : ToLower(f[j].field) # k
        IN
        /\ err.slug = SlugInvalid
        /\ err.error = out.arg
        /\ out.arg.kind = "InvalidValidationError" => err.params = NilParams
        /\ out.arg.kind = "ValidationErrors" =>
            /\ DOMAIN p = { ToLower(f[i].field) : i \in 1..Len(f) }
            /\ \A k \in DOMAIN p : p[k] = FieldMessage(f[last(k)], out.in.translator)
            /\ (\A i, j \in 1..Len(f) :
                    i # j => ToLower(f[i].field) # ToLower(f[j].field))
               => Cardinality(DOMAIN p) = Len(f)

C9_Witness ==
    /\ out.op = "NewFromValidator"
    /\ out.arg.kind = "ValidationErrors"
    /\ Len(out.arg.fields) = 2
    /\ out.in.translator = "en"
    /\ Deref(heap, err.params) =
        [k \in {"name", "email"} |->
            IF k = "name" THEN "Name is a required field"
            ELSE "Email must be a valid email address"]

OriginalParams ==
    Deref((CHOOSE i \in SharedInputs : i.e = err).heap, err.params)

\* C8: when one typed error is handed to two goroutines and each either
\* calls WithParams on it or reads its parameters, no parameter store is
\* written by one goroutine and read or written by the other, the program
\* does not crash, and each WithParams result holds the original entries
\* plus that goroutine's own additions only.
C8_RaceFree ==
    /\ \A g1, g2 \in Goroutines :
        g1 # g2 =>
            loc[g1].wrote \cap (loc[g2].wrote \cup loc[g2].read) = {}
    /\ ~Crashed
    /\ \A g \in Goroutines :
        (pc[g] = "done" /\ loc[g].task = "WithParams") =>
            Deref(heap, loc[g].e.params) = Merge(OriginalParams, loc[g].arg)

====
